---- MODULE Spec2Model ----
(***************************************************************************)
(* Entity model, identity allocator, cycle-safe resolution protocol and    *)
(* statement typer of the semantic-analysis core.                          *)
(*   auburn/src/analysis/entity.rs          EntityId, Path, Entity         *)
(*   language/src/analysis/typer/statements.rs   Typer::resolve_stmt_inner *)
(***************************************************************************)
EXTENDS Integers, Sequences, FiniteSets, TLC

VARIABLES
    TOKEN,      \* static TOKEN: AtomicUsize of EntityId::next
    entities,   \* every Entity value alive, in order of coming into existence
    origin,     \* per Entity value: 0 = built by a constructor, i = copy of entities[i]
    installs,   \* per Entity value: how many times resolve() was called on it
    lastOp,     \* the last Entity operation: its name, its target, the target before it
    tpc,        \* per thread: position inside a call of EntityId::next
    tret,       \* per thread: the value its fetch_add returned
    returned,   \* the values EntityId::next has returned, in order of return
    stack,      \* resolution driver: one frame per resolution in progress
    ret,        \* resolution driver: the value the innermost call has just returned
    result,     \* resolution driver: what the last outermost request returned
    root,       \* resolution driver: the entity of the outermost request
    cyclic,     \* the outermost request has reached an entity that is being resolved
    failed,     \* the entities whose resolution has ended with an error
    state,      \* Typer::state, the typer's flags
    call,       \* the last call of resolve_stmt_inner: its arguments, the flags on entry
    calls,      \* the calls that call made into the rest of the typer, in order
    out,        \* what that call returned, or that it panicked
    asked       \* the last queries made of the entities, each with its answer

vars ==
    <<TOKEN, entities, origin, installs, lastOp, tpc, tret, returned,
      stack, ret, result, root, cyclic, failed, state, call, calls, out, asked>>

(***************************************************************************)
(* Bounds of the model.                                                    *)
(***************************************************************************)
MaxEntities == 3
MaxLive == 1
MaxInstalls == 2
NumThreads == 3
MaxCalls == 4
NumEntities == 3
MaxDeps == 2

(***************************************************************************)
(* Values.                                                                 *)
(***************************************************************************)
InvalidType == "invalid"
UnitType == "unit"

\* Item: the raw declaration held by Unresolved; deps are the entities its
\* resolution refers to, in source order.
NoItem == [decl |-> "none", deps |-> <<>>]
LeafItem == [decl |-> "Variable", deps |-> <<>>]

\* enum EntityInfo
TerminalTags ==
    {"Primitive", "Structure", "Function", "AssociatedFunction",
     "Variable", "Param", "SelfParam", "Field"}
EntityInfoTags == {"Unresolved", "Resolving"} \cup TerminalTags
Unresolved(item) == [tag |-> "Unresolved", item |-> item]
Info(tag) == [tag |-> tag, item |-> NoItem]
Resolving == Info("Resolving")

\* enum Segment, struct Path
SegPath(name) == [seg |-> "Path", name |-> name]
SegObject(name) == [seg |-> "Object", name |-> name]
Path_empty == <<>>
push_path(path, name) == Append(path, SegPath(name))
push_object(path, name) == Append(path, SegObject(name))

(***************************************************************************)
(* EntityId::next: one atomic fetch_add on TOKEN.                          *)
(***************************************************************************)
fetch_add_lost(cur, n) == [old |-> cur, new |-> cur]

fetch_add(cur, n) == [old |-> cur, new |-> cur + n]

EntityId_next(tok) ==
    LET r == fetch_add(tok, 1) IN [id |-> r.old, token |-> r.new]

(***************************************************************************)
(* impl Entity                                                             *)
(***************************************************************************)
unresolved_unit_ty(visibility, name, item, invalid_type, tok) ==
    [id |-> EntityId_next(tok).id,
     visibility |-> visibility,
     name |-> name,
     ty |-> UnitType,
     kind |-> Unresolved(item),
     path |-> Path_empty]

unresolved(visibility, name, item, invalid_type, tok) ==
    [id |-> EntityId_next(tok).id,
     visibility |-> visibility,
     name |-> name,
     ty |-> invalid_type,
     kind |-> Unresolved(item),
     path |-> Path_empty]

resolving_placeholder_id(visibility, name, invalid_type, tok) ==
    [id |-> 0,
     visibility |-> visibility,
     name |-> name,
     ty |-> invalid_type,
     kind |-> Resolving,
     path |-> Path_empty]

resolving(visibility, name, invalid_type, tok) ==
    [id |-> EntityId_next(tok).id,
     visibility |-> visibility,
     name |-> name,
     ty |-> invalid_type,
     kind |-> Resolving,
     path |-> Path_empty]

resolve_keeps_path(self, ty, kind, path) ==
    [self EXCEPT !.ty = ty, !.kind = kind]

resolve(self, ty, kind, path) ==
    [self EXCEPT !.ty = ty, !.kind = kind, !.path = path]

set_visibility(self, visibility) == [self EXCEPT !.visibility = visibility]

to_resolving_noop(self) == self

to_resolving_primitive(self) == [self EXCEPT !.kind = Info("Primitive")]

to_resolving(self) == [self EXCEPT !.kind = Resolving]

new(visibility, name, ty, kind, path, tok) ==
    [id |-> EntityId_next(tok).id,
     visibility |-> visibility,
     name |-> name,
     ty |-> ty,
     kind |-> kind,
     path |-> path]

new_ref(visibility, name, ty, kind, path, tok) ==
    new(visibility, name, ty, kind, path, tok)

\* #[derive(Clone)] struct Entity: a field-by-field copy, id included.
clone(self) == self

\* kind_mut hands out &mut EntityInfo: the caller may store any EntityInfo.
kind_mut(self, kind) == [self EXCEPT !.kind = kind]

is_resolved_never(self) == FALSE

is_resolved(self) == self.kind.tag \notin {"Unresolved", "Resolving"}

is_resolving_never(self) == FALSE

is_resolving(self) == self.kind.tag = "Resolving"

is_unresolved_or_resolving(self) == self.kind.tag \in {"Unresolved", "Resolving"}

is_unresolved(self) == self.kind.tag = "Unresolved"

is_struct(self) == self.kind.tag = "Structure"

is_function(self) == self.kind.tag \in {"Function", "AssociatedFunction"}

is_field(self) == self.kind.tag = "Field"

\* What a type-narrowing accessor does: it returns the variant's info, or
\* panics.
Narrowed(info) == [st |-> "ok", info |-> info]

Panicked == [st |-> "panic", info |-> ""]

as_struct(self) ==
    IF self.kind.tag = "Structure" THEN Narrowed("StructureInfo") ELSE Panicked

as_struct_mut(self) ==
    IF self.kind.tag = "Structure" THEN Narrowed("StructureInfo") ELSE Panicked

as_local_field_only(self) ==
    IF self.kind.tag = "Field" THEN Narrowed("LocalInfo") ELSE Panicked

as_local(self) ==
    IF self.kind.tag \in {"Param", "Field"} THEN Narrowed("LocalInfo") ELSE Panicked

as_associated_function(self) ==
    IF self.kind.tag = "AssociatedFunction"
    THEN Narrowed("AssociatedFunctionInfo")
    ELSE Panicked

\* impl Display for Segment, impl Display for Path
Segment_to_string(seg) == seg.name

RECURSIVE join(_, _)
join(strs, sep) ==
    IF strs = <<>> THEN ""
    ELSE IF Len(strs) = 1 THEN Head(strs)
    ELSE Head(strs) \o sep \o join(Tail(strs), sep)

Path_to_string(path) ==
    join([k \in 1..Len(path) |-> Segment_to_string(path[k])], ".")

\* full_name(&self): the entity after the call, and the path returned.
full_name_in_place(self) ==
    LET path == push_object(self.path, self.name)
    IN  [self |-> [self EXCEPT !.path = path], path |-> path]

full_name(self) ==
    LET path == push_object(clone(self.path), self.name)
    IN  [self |-> self, path |-> path]

(***************************************************************************)
(* Specification SpecEntity: any sequence of Entity operations.            *)
(***************************************************************************)
\* The (ty, kind, path) triples the callers of resolve/new install.
ResolvedForms ==
    {[ty |-> "int", kind |-> Info(t), path |-> push_path(Path_empty, "m")] :
        t \in TerminalTags}

AllKinds == {Unresolved(LeafItem)} \cup {Info(t) : t \in EntityInfoTags \ {"Unresolved"}}

Decls == {[visibility |-> "Public", name |-> "a"], [visibility |-> "Private", name |-> "b"]}

Existing == 1..Len(entities)

IdsIdle == UNCHANGED <<tpc, tret, returned>>

DriverIdle == UNCHANGED <<stack, ret, result, root, cyclic, failed>>

TyperIdle == UNCHANGED <<state, call, calls, out>>

QueryIdle == UNCHANGED asked

\* What a call of the resolution driver returns: Ok(entity) or Err(error).
NoRet == [st |-> "none", e |-> 0, err |-> "", name |-> ""]
Ok(e) == [st |-> "ok", e |-> e, err |-> "", name |-> ""]
Err(kind, e, name) == [st |-> "err", e |-> e, err |-> kind, name |-> name]

NoEntity ==
    [id |-> 0, visibility |-> "Private", name |-> "", ty |-> InvalidType,
     kind |-> Info("Resolving"), path |-> Path_empty]

Op(op, e, pre) == [op |-> op, e |-> e, pre |-> pre]

NoOp == Op("none", 0, NoEntity)

\* Syntax nodes.  An expression or item node carries what the rest of the
\* typer makes of it: whether it resolves, and to which type and entity.
NoNode == [position |-> "", ok |-> FALSE, ty |-> "", entity |-> 0, mutable |-> FALSE]

NoStmtIn ==
    [kind |-> "none", position |-> "", op |-> "", expr |-> NoNode, item |-> NoNode,
     lvalue |-> NoNode, rhs |-> NoNode]

NoCall == [via |-> "", stmt |-> NoStmtIn, top_level |-> FALSE, entry |-> 0]

\* mir: typed expressions, MirStmtKind, Assignment, MirStmt.
NoMir == [position |-> "", ty |-> "", mutable |-> FALSE]

NoAssignment == [op |-> "", lvalue |-> 0, rhs |-> NoMir]

MirStmtKind_Expr(expr) ==
    [tag |-> "Expr", expr |-> expr, entity |-> 0, assignment |-> NoAssignment]

MirStmtKind_Item(entity) ==
    [tag |-> "Item", expr |-> NoMir, entity |-> entity, assignment |-> NoAssignment]

MirStmtKind_Assignment(assignment) ==
    [tag |-> "Assignment", expr |-> NoMir, entity |-> 0, assignment |-> assignment]

MirStmt_new(kind, position, ty) == [kind |-> kind, position |-> position, ty |-> ty]

NoMirStmt == MirStmt_new(MirStmtKind_Expr(NoMir), "", "")

\* error::Error
NoError == [kind |-> "", name |-> "", position |-> ""]

Error(kind, name) == [kind |-> kind, name |-> name, position |-> ""]

immutable_entity(name) == Error("ImmutableTarget", name)

with_position(err, position) == [err EXCEPT !.position = position]

\* Result<Rc<MirStmt>, Error>, or a panic that unwinds out of the call.
NoOut == [st |-> "none", stmt |-> NoMirStmt, err |-> NoError]
OkStmt(stmt) == [st |-> "ok", stmt |-> stmt, err |-> NoError]
ErrStmt(err) == [st |-> "err", stmt |-> NoMirStmt, err |-> err]
Panic == [st |-> "panic", stmt |-> NoMirStmt, err |-> NoError]

InitThreads ==
    /\ tpc = [t \in 1..NumThreads |-> "idle"]
    /\ tret = [t \in 1..NumThreads |-> 0]
    /\ returned = <<>>

InitDriver ==
    /\ stack = <<>>
    /\ ret = NoRet
    /\ result = NoRet
    /\ root = 0
    /\ cyclic = FALSE
    /\ failed = {}

InitTyper ==
    /\ state = 0
    /\ call = NoCall
    /\ calls = <<>>
    /\ out = NoOut

InitQuery == asked = <<>>

InitCommon == InitThreads /\ InitDriver /\ InitTyper /\ InitQuery

InitEntity ==
    /\ TOKEN = 1
    /\ entities = <<>>
    /\ origin = <<>>
    /\ installs = <<>>
    /\ lastOp = NoOp
    /\ InitCommon

Create(op, e) ==
    /\ entities' = Append(entities, e)
    /\ origin' = Append(origin, 0)
    /\ installs' = Append(installs, 0)
    /\ lastOp' = Op(op, Len(entities) + 1, NoEntity)
    /\ TOKEN' = EntityId_next(TOKEN).token
    /\ IdsIdle /\ DriverIdle /\ TyperIdle /\ QueryIdle

MakeUnresolved ==
    \E d \in Decls :
        Create("unresolved", unresolved(d.visibility, d.name, LeafItem, InvalidType, TOKEN))

MakeResolving ==
    \E d \in Decls : Create("resolving", resolving(d.visibility, d.name, InvalidType, TOKEN))

MakeNew ==
    \E d \in Decls, f \in ResolvedForms :
        Create("new", new(d.visibility, d.name, f.ty, f.kind, f.path, TOKEN))

MakeNewRef ==
    \E d \in Decls, f \in ResolvedForms :
        Create("new_ref", new_ref(d.visibility, d.name, f.ty, f.kind, f.path, TOKEN))

Clone(i) ==
    /\ entities' = Append(entities, clone(entities[i]))
    /\ origin' = Append(origin, i)
    /\ installs' = Append(installs, 0)
    /\ lastOp' = Op("clone", Len(entities) + 1, entities[i])
    /\ UNCHANGED TOKEN
    /\ IdsIdle /\ DriverIdle /\ TyperIdle /\ QueryIdle

ToResolving(i) ==
    /\ entities' = [entities EXCEPT ![i] = to_resolving(entities[i])]
    /\ lastOp' = Op("to_resolving", i, entities[i])
    /\ UNCHANGED <<TOKEN, origin, installs>>
    /\ IdsIdle /\ DriverIdle /\ TyperIdle /\ QueryIdle

Resolve(i, f) ==
    /\ installs[i] < MaxInstalls
    /\ installs' = [installs EXCEPT ![i] = @ + 1]
    /\ entities' = [entities EXCEPT ![i] = resolve(entities[i], f.ty, f.kind, f.path)]
    /\ lastOp' = Op("resolve", i, entities[i])
    /\ UNCHANGED <<TOKEN, origin>>
    /\ IdsIdle /\ DriverIdle /\ TyperIdle /\ QueryIdle

KindMut(i, k) ==
    /\ entities' = [entities EXCEPT ![i] = kind_mut(entities[i], k)]
    /\ lastOp' = Op("kind_mut", i, entities[i])
    /\ UNCHANGED <<TOKEN, origin, installs>>
    /\ IdsIdle /\ DriverIdle /\ TyperIdle /\ QueryIdle

Construct ==
    \/ MakeUnresolved
    \/ MakeResolving
    \/ MakeNew
    \/ MakeNewRef

NextEntity ==
    \/ Len(entities) < MaxLive /\ Construct
    \/ \E i \in Existing : ToResolving(i)
    \/ \E i \in Existing, f \in ResolvedForms : Resolve(i, f)
    \/ \E i \in Existing, k \in AllKinds : KindMut(i, k)

SpecEntity == InitEntity /\ [][NextEntity]_vars

(***************************************************************************)
(* Specification SpecLifecycle: the sequences of unresolved / resolving    *)
(* construction, to_resolving and resolve calls.                           *)
(***************************************************************************)
NextLifecycle ==
    \/ Len(entities) < MaxLive /\ (MakeUnresolved \/ MakeResolving)
    \/ \E i \in Existing : ToResolving(i)
    \/ \E i \in Existing, f \in ResolvedForms : Resolve(i, f)

SpecLifecycle == InitEntity /\ [][NextLifecycle]_vars

(***************************************************************************)
(* Specification SpecCreate: Entity values coming into existence, through  *)
(* the constructors and through copies.                                    *)
(***************************************************************************)
NextCreate ==
    /\ Len(entities) < MaxEntities
    /\ (Construct \/ \E i \in Existing : Clone(i))

SpecCreate == InitEntity /\ [][NextCreate]_vars

(***************************************************************************)
(* Queries of the entities: the caller asks one entity one question at a   *)
(* time; a panic ends the program.                                         *)
(***************************************************************************)
Answer(fn, e) ==
    [fn |-> fn, e |-> e, bool |-> FALSE, st |-> "ok", info |-> "", path |-> Path_empty,
     text |-> ""]

Told(fn, e, b) == [Answer(fn, e) EXCEPT !.bool = b]

Got(fn, e, r) == [Answer(fn, e) EXCEPT !.st = r.st, !.info = r.info]

\* The last two queries are remembered.
Recent(seq) == IF Len(seq) <= 2 THEN seq ELSE Tail(seq)

Aborted == asked # <<>> /\ asked[Len(asked)].st = "panic"

Query(i, after, a) ==
    /\ ~Aborted
    /\ entities' = [entities EXCEPT ![i] = after]
    /\ lastOp' = Op(a.fn, i, entities[i])
    /\ asked' = Recent(Append(asked, a))
    /\ UNCHANGED <<TOKEN, origin, installs>>
    /\ IdsIdle /\ DriverIdle /\ TyperIdle

\* An entity below two namespace segments.
MakeNested ==
    \E d \in Decls :
        Create("new", new(d.visibility, d.name, "int", Info("Function"),
                          push_path(push_path(Path_empty, "m"), "n"), TOKEN))

(***************************************************************************)
(* Specification SpecNarrow: kind predicates and type-narrowing accessors. *)
(***************************************************************************)
KindPredicates == {"is_struct", "is_function", "is_field"}

KindPredicate(fn, self) ==
    CASE fn = "is_struct" -> is_struct(self)
      [] fn = "is_function" -> is_function(self)
      [] fn = "is_field" -> is_field(self)

Accessors == {"as_struct", "as_struct_mut", "as_local", "as_associated_function"}

Accessor(fn, self) ==
    CASE fn = "as_struct" -> as_struct(self)
      [] fn = "as_struct_mut" -> as_struct_mut(self)
      [] fn = "as_local" -> as_local(self)
      [] fn = "as_associated_function" -> as_associated_function(self)

AskKind(i, fn) == Query(i, entities[i], Told(fn, i, KindPredicate(fn, entities[i])))

Narrow(i, fn) == Query(i, entities[i], Got(fn, i, Accessor(fn, entities[i])))

NextNarrow ==
    \/ Len(entities) < MaxLive /\ ~Aborted /\ Construct
    \/ \E i \in Existing, fn \in KindPredicates : AskKind(i, fn)
    \/ \E i \in Existing, fn \in Accessors : Narrow(i, fn)

SpecNarrow == InitEntity /\ [][NextNarrow]_vars

(***************************************************************************)
(* Specification SpecQuery: resolution-state predicates, full_name and the *)
(* rendering of paths.                                                     *)
(***************************************************************************)
StatePredicates == {"is_unresolved", "is_resolving", "is_resolved"}

StatePredicate(fn, self) ==
    CASE fn = "is_unresolved" -> is_unresolved(self)
      [] fn = "is_resolving" -> is_resolving(self)
      [] fn = "is_resolved" -> is_resolved(self)

AskState(i, fn) == Query(i, entities[i], Told(fn, i, StatePredicate(fn, entities[i])))

FullName(i) ==
    LET r == full_name(entities[i])
    IN  Query(i, r.self, [Answer("full_name", i) EXCEPT !.path = r.path])

\* entity.path().to_string()
RenderPath(i) ==
    Query(i, entities[i],
          [Answer("path.to_string", i) EXCEPT
              !.path = entities[i].path, !.text = Path_to_string(entities[i].path)])

\* entity.full_name().to_string()
RenderFullName(i) ==
    LET r == full_name(entities[i])
    IN  Query(i, r.self,
              [Answer("full_name.to_string", i) EXCEPT
                  !.path = r.path, !.text = Path_to_string(r.path)])

NextQuery ==
    \/ Len(entities) < MaxLive /\ (Construct \/ MakeNested)
    \/ \E i \in Existing, fn \in StatePredicates : AskState(i, fn)
    \/ \E i \in Existing : FullName(i)
    \/ \E i \in Existing : RenderPath(i)
    \/ \E i \in Existing : RenderFullName(i)

SpecQuery == InitEntity /\ [][NextQuery]_vars

(***************************************************************************)
(* Specification SpecMutate: the operations that take &mut self, applied   *)
(* in any order to entities built by unresolved() and resolving().         *)
(***************************************************************************)
Visibilities == {"Public", "Private"}

\* The (ty, kind, path) triples given to resolve().
InstallForms ==
    {[ty |-> "int", kind |-> Info("Structure"), path |-> push_path(Path_empty, "m")],
     [ty |-> "bool", kind |-> Info("Variable"),
      path |-> push_path(push_path(Path_empty, "m"), "n")]}

SetVisibility(i, visibility) ==
    /\ entities' = [entities EXCEPT ![i] = set_visibility(entities[i], visibility)]
    /\ lastOp' = Op("set_visibility", i, entities[i])
    /\ UNCHANGED <<TOKEN, origin, installs>>
    /\ IdsIdle /\ DriverIdle /\ TyperIdle /\ QueryIdle

NextMutate ==
    \/ Len(entities) < MaxLive /\ (MakeUnresolved \/ MakeResolving)
    \/ \E i \in Existing : ToResolving(i)
    \/ \E i \in Existing, f \in InstallForms : Resolve(i, f)
    \/ \E i \in Existing, visibility \in Visibilities : SetVisibility(i, visibility)

SpecMutate == InitEntity /\ [][NextMutate]_vars

(***************************************************************************)
(* Specification SpecIds: threads calling EntityId::next concurrently.     *)
(***************************************************************************)
Threads == 1..NumThreads

InitIds ==
    /\ TOKEN = 1
    /\ entities = <<>>
    /\ origin = <<>>
    /\ installs = <<>>
    /\ lastOp = NoOp
    /\ InitCommon

\* TOKEN.fetch_add(1, SeqCst): the read and the write are one atomic step.
ThreadFetchAdd(t) ==
    /\ tpc[t] = "idle"
    /\ Len(returned) + Cardinality({u \in Threads : tpc[u] = "fetched"}) < MaxCalls
    /\ tret' = [tret EXCEPT ![t] = EntityId_next(TOKEN).id]
    /\ TOKEN' = EntityId_next(TOKEN).token
    /\ tpc' = [tpc EXCEPT ![t] = "fetched"]
    /\ UNCHANGED <<entities, origin, installs, lastOp, returned>>
    /\ DriverIdle /\ TyperIdle /\ QueryIdle

\* Self(...) is built from the fetched value and handed to the caller.
ThreadReturn(t) ==
    /\ tpc[t] = "fetched"
    /\ returned' = Append(returned, tret[t])
    /\ tpc' = [tpc EXCEPT ![t] = "idle"]
    /\ UNCHANGED <<TOKEN, entities, origin, installs, lastOp, tret>>
    /\ DriverIdle /\ TyperIdle /\ QueryIdle

NextIds ==
    \/ \E t \in Threads : ThreadFetchAdd(t)
    \/ \E t \in Threads : ThreadReturn(t)

SpecIds == InitIds /\ [][NextIds]_vars

(***************************************************************************)
(* Specification SpecResolve: the cycle-safe lazy resolution protocol run  *)
(* on entities found by the first scan pass.  The kind-specific resolution *)
(* of an item requests the entities the item refers to, then either        *)
(* installs the terminal kind with resolve() or raises an error.           *)
(***************************************************************************)
EntityNames == <<"a", "b", "c", "d", "e", "f">>

DeclKinds == <<"Structure", "Function", "Variable">>

ScannedItem(i) == [decl |-> DeclKinds[((i - 1) % Len(DeclKinds)) + 1], deps |-> <<>>]

Scanned(i) == unresolved("Public", EntityNames[i], ScannedItem(i), InvalidType, i)

InitResolve ==
    /\ entities = [i \in 1..NumEntities |-> Scanned(i)]
    /\ TOKEN = NumEntities + 1
    /\ origin = [i \in 1..NumEntities |-> 0]
    /\ installs = [i \in 1..NumEntities |-> 0]
    /\ lastOp = NoOp
    /\ InitCommon

Top == stack[Len(stack)]

Pop == SubSeq(stack, 1, Len(stack) - 1)

OnStack(e) == \E k \in 1..Len(stack) : stack[k].e = e

KindErrors == {"TypeMismatch", "UnresolvedDependency"}

\* The terminal form the kind-specific resolution of an item installs.
TerminalForm(item) ==
    [ty |-> "int", kind |-> Info(item.decl), path |-> push_path(Path_empty, "m")]

\* One request for the resolved form of entity e, made with `callers` as the
\* frames of the resolutions in progress (protocol steps 1, 2 and 3).
Request(e, callers) ==
    /\ lastOp' = Op("request", e, entities[e])
    /\ IF is_resolved(entities[e])
       THEN /\ ret' = Ok(e)
            /\ stack' = callers
            /\ UNCHANGED entities
       ELSE IF is_resolving(entities[e])
       THEN /\ ret' = Err("CircularDefinition", e, entities[e].name)
            /\ stack' = callers
            /\ UNCHANGED entities
       ELSE /\ Len(callers) <= Len(entities)
            /\ entities' = [entities EXCEPT ![e] = to_resolving(entities[e])]
            /\ stack' = Append(callers, [e |-> e, n |-> 0, item |-> entities[e].kind.item])
            /\ ret' = NoRet
    /\ UNCHANGED <<TOKEN, origin, installs, failed>>
    /\ IdsIdle /\ TyperIdle /\ QueryIdle

\* The outermost caller asks for entity e.
DriverStart(e) ==
    /\ stack = <<>>
    /\ ret = NoRet
    /\ root' = e
    /\ cyclic' = FALSE
    /\ result' = NoRet
    /\ Request(e, <<>>)

\* The resolution on top of the stack reaches a reference to entity e.
DriverDepend(e) ==
    /\ stack # <<>>
    /\ ret = NoRet
    /\ Top.n < MaxDeps
    /\ cyclic' = (cyclic \/ OnStack(e))
    /\ UNCHANGED <<root, result>>
    /\ Request(e, [stack EXCEPT ![Len(stack)].n = @ + 1])

\* The resolution on top of the stack succeeds: resolve() installs the
\* terminal kind, type and path.
DriverInstall ==
    /\ stack # <<>>
    /\ ret = NoRet
    /\ installs[Top.e] < MaxInstalls
    /\ LET f == TerminalForm(Top.item) IN
         entities' = [entities EXCEPT ![Top.e] = resolve(entities[Top.e], f.ty, f.kind, f.path)]
    /\ installs' = [installs EXCEPT ![Top.e] = @ + 1]
    /\ lastOp' = Op("install", Top.e, entities[Top.e])
    /\ stack' = Pop
    /\ ret' = Ok(Top.e)
    /\ UNCHANGED <<TOKEN, origin, root, result, cyclic, failed>>
    /\ IdsIdle /\ TyperIdle /\ QueryIdle

\* The kind-specific resolution on top of the stack raises an error.
DriverFail(kind) ==
    /\ stack # <<>>
    /\ ret = NoRet
    /\ lastOp' = Op("fail", Top.e, entities[Top.e])
    /\ stack' = Pop
    /\ ret' = Err(kind, Top.e, entities[Top.e].name)
    /\ failed' = failed \cup {Top.e}
    /\ UNCHANGED <<TOKEN, entities, origin, installs, root, result, cyclic>>
    /\ IdsIdle /\ TyperIdle /\ QueryIdle

\* A request made by the resolution on top of the stack returned Ok.
DriverContinue ==
    /\ stack # <<>>
    /\ ret.st = "ok"
    /\ ret' = NoRet
    /\ lastOp' = Op("continue", Top.e, entities[Top.e])
    /\ UNCHANGED <<TOKEN, entities, origin, installs, stack, root, result, cyclic, failed>>
    /\ IdsIdle /\ TyperIdle /\ QueryIdle

\* A request made by the resolution on top of the stack returned Err: the
\* error goes on to its caller and the entity stays as it is.
DriverPropagate ==
    /\ stack # <<>>
    /\ ret.st = "err"
    /\ stack' = Pop
    /\ failed' = failed \cup {Top.e}
    /\ lastOp' = Op("propagate", Top.e, entities[Top.e])
    /\ UNCHANGED <<TOKEN, entities, origin, installs, ret, root, result, cyclic>>
    /\ IdsIdle /\ TyperIdle /\ QueryIdle

\* The outermost request returns.
DriverDone ==
    /\ stack = <<>>
    /\ ret # NoRet
    /\ result' = ret
    /\ ret' = NoRet
    /\ lastOp' = Op("done", root, entities[root])
    /\ UNCHANGED <<TOKEN, entities, origin, installs, stack, root, cyclic, failed>>
    /\ IdsIdle /\ TyperIdle /\ QueryIdle

NextResolve ==
    \/ \E e \in Existing : DriverStart(e)
    \/ \E e \in Existing : DriverDepend(e)
    \/ DriverInstall
    \/ \E kind \in KindErrors : DriverFail(kind)
    \/ DriverContinue
    \/ DriverPropagate
    \/ DriverDone

SpecResolve == InitResolve /\ [][NextResolve]_vars

(***************************************************************************)
(* Typer::resolve_stmt_inner and the parts of the typer it calls.          *)
(***************************************************************************)
\* analysis::typer::EXPR_RESULT_USED, one bit of Typer::state.
EXPR_RESULT_USED == 1

StateFlags == 0..3

HasBits(flags, bits) == (flags \div bits) % 2 = 1

\* flags & !bits, for a single bit
ClearBits(flags, bits) == IF HasBits(flags, bits) THEN flags - bits ELSE flags

get_unit == UnitType

AssignmentOps == {"Assign", "AddAssign", "SubAssign"}

ExprOk(mir) == [st |-> "ok", mir |-> mir, entity |-> 0, err |-> NoError]

ExprErr(err) == [st |-> "err", mir |-> NoMir, entity |-> 0, err |-> err]

Typed(node) == [position |-> node.position, ty |-> node.ty, mutable |-> node.mutable]

\* Typer::resolve_expr(expr, expected): the typed expression, or the error
\* of a name that has no binding or of a type that is not the expected one.
resolve_expr(expr, expected) ==
    IF ~expr.ok
    THEN ExprErr(with_position(Error("UnresolvedDependency", ""), expr.position))
    ELSE IF expected # "" /\ expr.ty # expected
    THEN ExprErr(with_position(Error("TypeMismatch", ""), expr.position))
    ELSE ExprOk(Typed(expr))

\* Typer::resolve_expr_to_entity(expr): the entity the lvalue names and the
\* typed lvalue, whose meta carries the mutability.
resolve_expr_to_entity(expr) ==
    IF ~expr.ok
    THEN ExprErr(with_position(Error("UnresolvedDependency", ""), expr.position))
    ELSE [ExprOk(Typed(expr)) EXCEPT !.entity = expr.entity]

\* Typer::resolve_item and Typer::resolve_top_level_item: the declared entity.
resolve_item(item) ==
    IF ~item.ok
    THEN ExprErr(with_position(Error("TypeMismatch", ""), item.position))
    ELSE [ExprOk(NoMir) EXCEPT !.entity = item.entity]

resolve_top_level_item(item) ==
    IF ~item.ok
    THEN ExprErr(with_position(Error("TypeMismatch", ""), item.position))
    ELSE [ExprOk(NoMir) EXCEPT !.entity = item.entity]

Called(fn, node, expected, flags) ==
    [fn |-> fn, position |-> node.position, expected |-> expected, state |-> flags]

Returns(o, flags, log) == [out |-> o, state |-> flags, calls |-> log]

ResolveExprStmt_flag_kept(stmt, flags) ==
    LET r == resolve_expr(stmt.expr, "")
        log == <<Called("resolve_expr", stmt.expr, "", flags)>>
    IN  IF r.st = "err"
        THEN Returns(ErrStmt(r.err), flags, log)
        ELSE Returns(
                OkStmt(MirStmt_new(MirStmtKind_Expr(r.mir), r.mir.position, r.mir.ty)),
                flags, log)

\* StmtKind::Expr(expr)
ResolveExprStmt(stmt, flags) ==
    LET old_state == flags
        cleared == ClearBits(flags, EXPR_RESULT_USED)
        r == resolve_expr(stmt.expr, "")
        log == <<Called("resolve_expr", stmt.expr, "", cleared)>>
    IN  IF r.st = "err"
        THEN Returns(ErrStmt(r.err), cleared, log)
        ELSE Returns(
                OkStmt(MirStmt_new(MirStmtKind_Expr(r.mir), r.mir.position, r.mir.ty)),
                old_state, log)

ResolveItemStmt_entity_ty(stmt, top_level, flags) ==
    LET r == IF top_level
             THEN resolve_top_level_item(stmt.item)
             ELSE resolve_item(stmt.item)
        log == <<Called(IF top_level THEN "resolve_top_level_item" ELSE "resolve_item",
                        stmt.item, "", flags)>>
    IN  IF r.st = "err"
        THEN Returns(ErrStmt(r.err), flags, log)
        ELSE Returns(
                OkStmt(MirStmt_new(MirStmtKind_Item(r.entity), stmt.item.position,
                                   entities[r.entity].ty)),
                flags, log)

\* StmtKind::Item(item)
ResolveItemStmt(stmt, top_level, flags) ==
    LET r == IF top_level
             THEN resolve_top_level_item(stmt.item)
             ELSE resolve_item(stmt.item)
        log == <<Called(IF top_level THEN "resolve_top_level_item" ELSE "resolve_item",
                        stmt.item, "", flags)>>
    IN  IF r.st = "err"
        THEN Returns(ErrStmt(r.err), flags, log)
        ELSE Returns(
                OkStmt(MirStmt_new(MirStmtKind_Item(r.entity), stmt.item.position, get_unit)),
                flags, log)

ResolveAssignmentStmt_rhs_first(stmt, flags) ==
    LET l == resolve_expr_to_entity(stmt.lvalue)
        log1 == <<Called("resolve_expr_to_entity", stmt.lvalue, "", flags)>>
        r == resolve_expr(stmt.rhs, l.mir.ty)
        log2 == Append(log1, Called("resolve_expr", stmt.rhs, l.mir.ty, flags))
    IN  IF l.st = "err" THEN Returns(ErrStmt(l.err), flags, log1)
        ELSE IF stmt.op # "Assign" THEN Returns(Panic, flags, log1)
        ELSE IF r.st = "err" THEN Returns(ErrStmt(r.err), flags, log2)
        ELSE IF ~l.mir.mutable
        THEN Returns(
                ErrStmt(with_position(immutable_entity(entities[l.entity].name),
                                      stmt.lvalue.position)),
                flags, log2)
        ELSE Returns(
                OkStmt(MirStmt_new(
                    MirStmtKind_Assignment([op |-> stmt.op, lvalue |-> l.entity, rhs |-> r.mir]),
                    stmt.position, get_unit)),
                flags, log2)

ResolveAssignmentStmt_untyped_rhs(stmt, flags) ==
    LET l == resolve_expr_to_entity(stmt.lvalue)
        log1 == <<Called("resolve_expr_to_entity", stmt.lvalue, "", flags)>>
        r == resolve_expr(stmt.rhs, "")
        log2 == Append(log1, Called("resolve_expr", stmt.rhs, "", flags))
    IN  IF l.st = "err" THEN Returns(ErrStmt(l.err), flags, log1)
        ELSE IF ~l.mir.mutable
        THEN Returns(
                ErrStmt(with_position(immutable_entity(entities[l.entity].name),
                                      stmt.lvalue.position)),
                flags, log1)
        ELSE IF stmt.op = "Assign"
        THEN IF r.st = "err" THEN Returns(ErrStmt(r.err), flags, log2)
             ELSE Returns(
                    OkStmt(MirStmt_new(
                        MirStmtKind_Assignment(
                            [op |-> stmt.op, lvalue |-> l.entity, rhs |-> r.mir]),
                        stmt.position, get_unit)),
                    flags, log2)
        ELSE Returns(Panic, flags, log1)

\* StmtKind::Assignment { op, lvalue, rhs }
ResolveAssignmentStmt(stmt, flags) ==
    LET l == resolve_expr_to_entity(stmt.lvalue)
        log1 == <<Called("resolve_expr_to_entity", stmt.lvalue, "", flags)>>
        mutability == l.mir.mutable
        lvalue_type == l.mir.ty
        r == resolve_expr(stmt.rhs, lvalue_type)
        log2 == Append(log1, Called("resolve_expr", stmt.rhs, lvalue_type, flags))
    IN  IF l.st = "err" THEN Returns(ErrStmt(l.err), flags, log1)
        ELSE IF ~mutability
        THEN Returns(
                ErrStmt(with_position(immutable_entity(entities[l.entity].name),
                                      stmt.lvalue.position)),
                flags, log1)
        ELSE IF stmt.op = "Assign"
        THEN IF r.st = "err" THEN Returns(ErrStmt(r.err), flags, log2)
             ELSE Returns(
                    OkStmt(MirStmt_new(
                        MirStmtKind_Assignment(
                            [op |-> stmt.op, lvalue |-> l.entity, rhs |-> r.mir]),
                        stmt.position, get_unit)),
                    flags, log2)
        ELSE Returns(Panic, flags, log1)     \* todo!(...)

resolve_stmt_inner(stmt, top_level, flags) ==
    CASE stmt.kind = "Expr" -> ResolveExprStmt(stmt, flags)
      [] stmt.kind = "Item" -> ResolveItemStmt(stmt, top_level, flags)
      [] stmt.kind = "Assignment" -> ResolveAssignmentStmt(stmt, flags)
      [] OTHER -> Returns(Panic, flags, <<>>)     \* StmtKind::Empty => unreachable!()

resolve_stmt_top_level(stmt, flags) == resolve_stmt_inner(stmt, TRUE, flags)

resolve_stmt(stmt, flags) == resolve_stmt_inner(stmt, FALSE, flags)

(***************************************************************************)
(* Specification SpecStmt: one typer resolving statements one after the    *)
(* other, until a call panics.                                             *)
(***************************************************************************)
Node(position, ok, ty, entity, mutable) ==
    [position |-> position, ok |-> ok, ty |-> ty, entity |-> entity, mutable |-> mutable]

ExprNodes == {Node("expr", ok, ty, 0, FALSE) : ok \in BOOLEAN, ty \in {"int", "bool", UnitType}}

LvalueNodes ==
    {Node("lvalue", ok, ty, e, m) :
        ok \in BOOLEAN, ty \in {"int", "bool"}, e \in 1..2, m \in BOOLEAN}

RhsNodes == {Node("rhs", ok, ty, 0, FALSE) : ok \in BOOLEAN, ty \in {"int", "bool"}}

ItemNodes == {Node("item", ok, "", e, FALSE) : ok \in BOOLEAN, e \in 1..2}

Stmts ==
    {[NoStmtIn EXCEPT !.kind = "Expr", !.position = "stmt", !.expr = x] : x \in ExprNodes}
    \cup {[NoStmtIn EXCEPT !.kind = "Item", !.position = "stmt", !.item = x] : x \in ItemNodes}
    \cup {[NoStmtIn EXCEPT !.kind = "Assignment", !.position = "stmt", !.op = op,
                           !.lvalue = l, !.rhs = r] :
            op \in AssignmentOps, l \in LvalueNodes, r \in RhsNodes}

Declared ==
    <<new("Public", "a", "int", Info("Variable"), push_path(Path_empty, "m"), 1),
      new("Private", "b", "bool", Info("Structure"), push_path(Path_empty, "m"), 2)>>

InitStmt ==
    /\ entities = Declared
    /\ TOKEN = Len(Declared) + 1
    /\ origin = [i \in 1..Len(Declared) |-> 0]
    /\ installs = [i \in 1..Len(Declared) |-> 0]
    /\ lastOp = NoOp
    /\ InitThreads
    /\ InitDriver
    /\ state \in StateFlags
    /\ call = NoCall
    /\ calls = <<>>
    /\ out = NoOut
    /\ InitQuery

Invoke(via, stmt, top_level, r) ==
    /\ out.st # "panic"
    /\ call' = [via |-> via, stmt |-> stmt, top_level |-> top_level, entry |-> state]
    /\ state' = r.state
    /\ calls' = r.calls
    /\ out' = r.out
    /\ UNCHANGED <<TOKEN, entities, origin, installs, lastOp>>
    /\ IdsIdle /\ DriverIdle /\ QueryIdle

CallResolveStmtInner(stmt, top_level) ==
    Invoke("resolve_stmt_inner", stmt, top_level, resolve_stmt_inner(stmt, top_level, state))

CallResolveStmt(stmt) == Invoke("resolve_stmt", stmt, FALSE, resolve_stmt(stmt, state))

NextStmt ==
    \/ \E stmt \in Stmts, top_level \in BOOLEAN : CallResolveStmtInner(stmt, top_level)
    \/ \E stmt \in Stmts : CallResolveStmt(stmt)

SpecStmt == InitStmt /\ [][NextStmt]_vars

(***************************************************************************)
(* Properties.                                                             *)
(***************************************************************************)
Post == entities[lastOp.e]

Pre == lastOp.pre

Mutated == lastOp.op \in {"to_resolving", "resolve"}

Tag(i) == entities[i].kind.tag

\* What the caller of the last call holds: the value in flight, or the
\* result of the outermost request once it has returned.
Outcome == IF ret.st = "none" THEN result ELSE ret

\* C1: when the resolution of an entity requests, directly or through other
\* entities, an entity that is itself being resolved, that request fails at
\* once with CircularDefinition naming the entity, no further resolution is
\* started, the error reaches the outermost caller, and the depth of the
\* recursion never exceeds the number of entities.
C1_CycleIsDetected ==
    /\ Len(stack) <= Len(entities)
    /\ (lastOp.op = "request" /\ Pre.kind.tag = "Resolving") =>
          /\ ret = Err("CircularDefinition", lastOp.e, Pre.name)
          /\ Post = Pre
    /\ cyclic => (Outcome.st = "err" /\ Outcome.err = "CircularDefinition")

\* a -> b -> c -> a, or another cycle through three entities, has been
\* reported to the outermost caller.
C1_Witness ==
    /\ lastOp.op = "done"
    /\ cyclic
    /\ Cardinality(failed) >= 3
    /\ result.st = "err" /\ result.err = "CircularDefinition"

\* C6: a request for an entity that is in a terminal kind returns that
\* entity and changes no entity (kind, ty and path stay), and resolve() is
\* called on each entity at most once.
C6_ResolvedRequestIsIdempotent ==
    /\ [](\A i \in Existing : installs[i] <= 1)
    /\ [][(lastOp'.op = "request" /\ Tag(lastOp'.e) \in TerminalTags) =>
            (/\ ret' = Ok(lastOp'.e)
             /\ entities' = entities
             /\ installs' = installs
             /\ failed' = failed
             /\ Len(stack') <= Len(stack))]_vars

\* A resolution in progress has requested an entity resolved earlier.
C6_Witness ==
    /\ lastOp.op = "request"
    /\ Pre.kind.tag \in TerminalTags
    /\ stack # <<>>
    /\ ret = Ok(lastOp.e)
    /\ installs[lastOp.e] = 1

\* C9: when the resolution of an entity ends with an error, raised by its own
\* kind-specific resolution or by a request it made, the caller receives that
\* error, resolve() is never called on the entity and the entity stays
\* Resolving.
C9_ErrorLeavesResolving ==
    /\ \A e \in failed : Tag(e) = "Resolving" /\ installs[e] = 0
    /\ lastOp.op = "fail" =>
          (ret.st = "err" /\ ret.e = lastOp.e /\ ret.err \in KindErrors /\ Post = Pre)
    /\ lastOp.op = "propagate" => (ret.st = "err" /\ Post = Pre)
    /\ (lastOp.op = "done" /\ root \in failed) => result.st = "err"

\* A kind-specific error raised two levels down has reached the outermost
\* caller.
C9_Witness ==
    /\ lastOp.op = "done"
    /\ result.st = "err" /\ result.err \in KindErrors
    /\ result.e # root
    /\ {root, result.e} \subseteq failed

\* C2 as stated: over every sequence of Entity operations, an entity whose
\* kind is terminal never again has kind Resolving or Unresolved, and an
\* Unresolved entity does not become terminal in one step.
C2_KindOnlyMovesForward ==
    Mutated =>
        /\ is_resolved(Pre) => is_resolved(Post)
        /\ is_unresolved(Pre) => ~is_resolved(Post)

\* C2 (amended): to_resolving() leaves the entity Resolving whatever its kind
\* was (Unresolved, Resolving or terminal), resolve() with a terminal kind
\* leaves it terminal whatever its kind was, and unresolved() / resolving()
\* build an Unresolved / a Resolving entity; so the kind moves along
\* Unresolved -> Resolving -> terminal in the sequences that apply
\* to_resolving to an Unresolved entity and resolve to a Resolving one.
C2_KindOrderUnderProtocol ==
    /\ lastOp.op = "unresolved" => is_unresolved(Post)
    /\ lastOp.op = "resolving" => is_resolving(Post)
    /\ lastOp.op = "to_resolving" => is_resolving(Post)
    /\ lastOp.op = "resolve" => is_resolved(Post)
    /\ (lastOp.op = "to_resolving" /\ is_unresolved(Pre)) =>
            (~is_unresolved(Post) /\ ~is_resolved(Post))
    /\ (lastOp.op = "resolve" /\ is_resolving(Pre)) =>
            (~is_unresolved(Post) /\ ~is_resolving(Post))

C2_Witness ==
    /\ lastOp.op = "resolve"
    /\ is_resolving(Pre)
    /\ Pre.ty = InvalidType
    /\ is_resolved(Post)

\* C4: no two calls of EntityId::next return the same value, whatever the
\* interleaving, and once n calls have returned and none is in flight the
\* values returned are exactly 1..n.
InFlight == {t \in Threads : tpc[t] = "fetched"}

C4_NextValuesUnique ==
    /\ \A i, j \in 1..Len(returned) : i # j => returned[i] # returned[j]
    /\ \A t \in InFlight : \A i \in 1..Len(returned) : tret[t] # returned[i]
    /\ \A t, u \in InFlight : t # u => tret[t] # tret[u]
    /\ InFlight = {} => {returned[i] : i \in 1..Len(returned)} = 1..Len(returned)

\* Three calls have returned, out of the order in which they fetched.
C4_Witness ==
    /\ InFlight = {}
    /\ Len(returned) >= 3
    /\ \E i \in 1..(Len(returned) - 1) : returned[i] > returned[i + 1]

\* C5 as stated: any two Entity values have different ids and the later one
\* the larger, copies included.
C5_AllIdsDistinct ==
    \A i, j \in Existing : i < j => entities[i].id < entities[j].id

\* C5 (amended): an Entity built by a constructor (unresolved, resolving,
\* new, new_ref) has an id strictly larger than the id of every Entity value
\* that existed before it, so constructor-built entities have pairwise
\* different ids that increase in creation order; a copy of an Entity
\* (derive Clone) has the id of its original.
C5_ConstructedIdsIncrease ==
    \A j \in Existing :
        IF origin[j] = 0
        THEN \A i \in 1..(j - 1) : entities[i].id < entities[j].id
        ELSE entities[j].id = entities[origin[j]].id

\* Two entities built by different constructors, and a copy of the first.
C5_Witness ==
    /\ Len(entities) >= 3
    /\ origin[1] = 0 /\ is_unresolved(entities[1])
    /\ origin[2] = 1
    /\ origin[3] = 0 /\ is_resolved(entities[3])

\* C8 as stated: in every state reached by unresolved / resolving
\* construction, to_resolving and resolve, an entity that is not resolved
\* has the invalid sentinel as its ty.
C8_UnresolvedHasInvalidType ==
    \A i \in Existing : ~is_resolved(entities[i]) => entities[i].ty = InvalidType

\* C8 (amended): an entity on which resolve() was never called is not
\* resolved and has the invalid sentinel as its ty; to_resolving() leaves ty
\* as it was, so after a resolve() a to_resolving() gives a Resolving entity
\* that keeps the resolved ty.
C8_InvalidTypeUntilFirstResolve ==
    /\ \A i \in Existing :
          installs[i] = 0 => (~is_resolved(entities[i]) /\ entities[i].ty = InvalidType)
    /\ lastOp.op = "to_resolving" => (Post.ty = Pre.ty /\ is_resolving(Post))

C8_Witness ==
    /\ lastOp.op = "to_resolving"
    /\ is_unresolved(Pre)
    /\ installs[lastOp.e] = 0
    /\ Post.ty = InvalidType

\* C3: an assignment statement, with any assignment operator, whose lvalue
\* resolves to a target that is not mutable returns the ImmutableTarget error
\* with the target entity's name and the lvalue's position, and resolve_expr
\* is not called on the right-hand side.
C3_ImmutableTargetBeforeRhs ==
    (call.stmt.kind = "Assignment" /\ call.stmt.lvalue.ok /\ ~call.stmt.lvalue.mutable) =>
        /\ out.st = "err"
        /\ out.err.kind = "ImmutableTarget"
        /\ out.err.name = entities[call.stmt.lvalue.entity].name
        /\ out.err.position = call.stmt.lvalue.position
        /\ \A k \in 1..Len(calls) : calls[k].fn # "resolve_expr"

\* A compound assignment to an immutable target whose right-hand side would
\* itself fail to resolve.
C3_Witness ==
    /\ call.stmt.kind = "Assignment"
    /\ call.stmt.op = "AddAssign"
    /\ call.stmt.lvalue.ok /\ ~call.stmt.lvalue.mutable
    /\ ~call.stmt.rhs.ok
    /\ out.st = "err"

\* C7: every MirStmt returned for an Item statement or for an Assignment
\* statement has the unit type as its ty.
C7_ItemAndAssignmentAreUnit ==
    (out.st = "ok" /\ call.stmt.kind \in {"Item", "Assignment"}) =>
        /\ out.stmt.kind.tag = call.stmt.kind
        /\ out.stmt.ty = UnitType

\* An Item statement declaring an entity of type int has been resolved.
C7_Witness ==
    /\ out.st = "ok"
    /\ call.stmt.kind = "Item"
    /\ entities[out.stmt.kind.entity].ty = "int"

\* C10: a compound assignment to a mutable lvalue returns the
\* UnsupportedConstruct error as an Err value; the call does not abort.
C10_CompoundAssignmentIsAnError ==
    (/\ call.stmt.kind = "Assignment"
     /\ call.stmt.op # "Assign"
     /\ call.stmt.lvalue.ok
     /\ call.stmt.lvalue.mutable) =>
        (out.st = "err" /\ out.err.kind = "UnsupportedConstruct")

PlainAssignment ==
    /\ call.stmt.kind = "Assignment"
    /\ call.stmt.op = "Assign"
    /\ call.stmt.lvalue.ok
    /\ call.stmt.lvalue.mutable

RhsCalls == {k \in 1..Len(calls) : calls[k].fn = "resolve_expr"}

\* C11: for a plain assignment to a mutable lvalue, resolve_expr is called on
\* the right-hand side exactly once, after the lvalue, with the lvalue's type
\* as the expected type; its error, if any, is returned; otherwise the
\* returned statement is an Assignment node with the statement's operator,
\* the entity the lvalue resolved to and the resolved right-hand side, at the
\* position of the assignment statement.
C11_PlainAssignmentNode ==
    PlainAssignment =>
        /\ Cardinality(RhsCalls) = 1
        /\ \A k \in RhsCalls :
              /\ k = Len(calls)
              /\ calls[k].position = call.stmt.rhs.position
              /\ calls[k].expected = call.stmt.lvalue.ty
        /\ out.st \in {"ok", "err"}
        /\ out.st = "err" => out.err.position = call.stmt.rhs.position
        /\ out.st = "ok" =>
              /\ out.stmt.kind.tag = "Assignment"
              /\ out.stmt.kind.assignment.op = call.stmt.op
              /\ out.stmt.kind.assignment.lvalue = call.stmt.lvalue.entity
              /\ out.stmt.kind.assignment.rhs.position = call.stmt.rhs.position
              /\ out.stmt.kind.assignment.rhs.ty = call.stmt.lvalue.ty
              /\ out.stmt.position = call.stmt.position

\* `b = <bool expression>` with b mutable has been resolved.
C11_Witness ==
    /\ PlainAssignment
    /\ call.stmt.lvalue.ty = "bool"
    /\ call.stmt.lvalue.entity = 2
    /\ out.st = "ok"
    /\ out.stmt.kind.assignment.rhs.ty = "bool"

\* C15: for an expression statement, resolve_expr is called once, on the
\* inner expression, with no expected type and with EXPR_RESULT_USED clear in
\* the typer's flags whatever the flags were on entry; the statement returned
\* on success is an Expr node whose ty and position are those of the resolved
\* expression.
C15_ExprStmtResolvedUnused ==
    call.stmt.kind = "Expr" =>
        /\ Len(calls) = 1
        /\ calls[1].fn = "resolve_expr"
        /\ calls[1].position = call.stmt.expr.position
        /\ calls[1].expected = ""
        /\ ~HasBits(calls[1].state, EXPR_RESULT_USED)
        /\ out.st = "ok" =>
              /\ out.stmt.kind.tag = "Expr"
              /\ out.stmt.kind.expr.ty = call.stmt.expr.ty
              /\ out.stmt.ty = out.stmt.kind.expr.ty
              /\ out.stmt.position = out.stmt.kind.expr.position
              /\ out.stmt.position = call.stmt.expr.position

\* An expression statement of type bool resolved by a typer that had
\* EXPR_RESULT_USED set on entry.
C15_Witness ==
    /\ call.stmt.kind = "Expr"
    /\ HasBits(call.entry, EXPR_RESULT_USED)
    /\ out.st = "ok"
    /\ out.stmt.ty = "bool"

\* C16: whenever resolve_stmt_inner returns, with a statement or with an
\* error, the typer's flags are what they were on entry.
C16_FlagsRestoredOnEveryReturn ==
    out.st \in {"ok", "err"} => state = call.entry

\* C17: an Item statement is resolved by one call of resolve_top_level_item
\* when resolve_stmt_inner is given top_level = TRUE and by one call of
\* resolve_item when it is given FALSE; through resolve_stmt it is always
\* resolve_item; the statement returned on success is an Item node holding
\* the resolved entity, at the item's position.
C17_ItemPathFollowsTopLevel ==
    call.stmt.kind = "Item" =>
        /\ Len(calls) = 1
        /\ calls[1].position = call.stmt.item.position
        /\ call.via = "resolve_stmt" => calls[1].fn = "resolve_item"
        /\ call.via = "resolve_stmt_inner" =>
              calls[1].fn = (IF call.top_level THEN "resolve_top_level_item" ELSE "resolve_item")
        /\ out.st = "ok" =>
              /\ out.stmt.kind.tag = "Item"
              /\ out.stmt.kind.entity = call.stmt.item.entity
              /\ out.stmt.position = call.stmt.item.position

\* An Item statement has been resolved through resolve_stmt.
C17_Witness ==
    /\ call.via = "resolve_stmt"
    /\ call.stmt.kind = "Item"
    /\ calls[1].fn = "resolve_item"
    /\ out.st = "ok"
    /\ out.stmt.kind.entity = 2

\* The queries remembered, with their answers.
Answers == {asked[k] : k \in 1..Len(asked)}

Queried == lastOp.op \in KindPredicates \cup Accessors \cup StatePredicates
                \cup {"full_name", "path.to_string", "full_name.to_string"}

\* The kinds on which each type-narrowing accessor returns.
NarrowsOn(fn) ==
    CASE fn \in {"as_struct", "as_struct_mut"} -> {"Structure"}
      [] fn = "as_local" -> {"Param", "Field"}
      [] fn = "as_associated_function" -> {"AssociatedFunction"}

AccessorsDecidedByKind ==
    /\ \A a \in Answers :
          a.fn \in Accessors =>
              /\ a.st = (IF Tag(a.e) \in NarrowsOn(a.fn) THEN "ok" ELSE "panic")
              /\ (a.fn \in {"as_struct", "as_struct_mut"}) =>
                    (a.st = "ok" <=> is_struct(entities[a.e]))
    /\ Queried => Post = Pre

\* A predicate answered TRUE, then the accessor was called on the same entity.
CheckedAccess(pred, acc) ==
    /\ Len(asked) = 2
    /\ asked[1].fn = pred /\ asked[1].bool
    /\ asked[2].fn = acc
    /\ asked[1].e = asked[2].e

\* C12 as stated: each accessor returns exactly on its own kinds and panics
\* on every other kind, and after is_struct(), is_field() or is_function()
\* answered TRUE, as_struct, as_local or as_associated_function,
\* respectively, returns.
C12_PredicateEstablishesAccessor ==
    /\ AccessorsDecidedByKind
    /\ CheckedAccess("is_struct", "as_struct") => asked[2].st = "ok"
    /\ CheckedAccess("is_field", "as_local") => asked[2].st = "ok"
    /\ CheckedAccess("is_function", "as_associated_function") => asked[2].st = "ok"

\* C12 (amended): each accessor returns exactly on its own kinds (as_struct
\* and as_struct_mut on Structure, that is iff is_struct(); as_local on Param
\* and Field; as_associated_function on AssociatedFunction) and panics on
\* every other kind; is_struct() = TRUE makes as_struct and as_struct_mut
\* return and is_field() = TRUE makes as_local return; is_function() = TRUE
\* does not make as_associated_function return: it is TRUE of a plain
\* Function too, on which as_associated_function panics.
C12_AccessorsNarrowByKind ==
    /\ AccessorsDecidedByKind
    /\ CheckedAccess("is_struct", "as_struct") => asked[2].st = "ok"
    /\ CheckedAccess("is_struct", "as_struct_mut") => asked[2].st = "ok"
    /\ CheckedAccess("is_field", "as_local") => asked[2].st = "ok"
    /\ CheckedAccess("is_function", "as_associated_function") =>
          /\ Tag(asked[2].e) \in {"Function", "AssociatedFunction"}
          /\ asked[2].st = (IF Tag(asked[2].e) = "Function" THEN "panic" ELSE "ok")

\* is_function() answered TRUE of a plain Function and
\* as_associated_function panicked on it.
C12_Witness ==
    /\ CheckedAccess("is_function", "as_associated_function")
    /\ Tag(asked[2].e) = "Function"
    /\ asked[2].st = "panic"

\* C13: of every entity exactly one of is_unresolved(), is_resolving() and
\* is_resolved() is TRUE; is_resolved() is FALSE of Unresolved and Resolving
\* and TRUE of the eight terminal kinds; the predicates leave the entity as
\* it was.
C13_ExactlyOneStatePredicate ==
    /\ \A i \in Existing :
          Cardinality({fn \in StatePredicates : StatePredicate(fn, entities[i])}) = 1
    /\ \A a \in Answers :
          /\ a.fn = "is_resolved" => (a.bool <=> Tag(a.e) \in TerminalTags)
          /\ a.fn = "is_resolved" => (~a.bool <=> Tag(a.e) \in {"Unresolved", "Resolving"})
          /\ a.fn = "is_resolving" => (a.bool <=> Tag(a.e) = "Resolving")
          /\ a.fn = "is_unresolved" => (a.bool <=> Tag(a.e) = "Unresolved")
    /\ \A a, b \in Answers :
          (a.e = b.e /\ a.fn # b.fn /\ {a.fn, b.fn} \subseteq StatePredicates) =>
              ~(a.bool /\ b.bool)
    /\ lastOp.op \in StatePredicates => Post = Pre

\* is_resolving() answered FALSE and is_resolved() TRUE of a SelfParam.
C13_Witness ==
    /\ Len(asked) = 2
    /\ asked[1].fn = "is_resolving" /\ ~asked[1].bool
    /\ asked[2].fn = "is_resolved" /\ asked[2].bool
    /\ asked[1].e = asked[2].e
    /\ Tag(asked[2].e) = "SelfParam"

\* A path of up to three segments, joined with '.'.
Dotted(path) ==
    CASE Len(path) = 0 -> ""
      [] Len(path) = 1 -> path[1].name
      [] Len(path) = 2 -> path[1].name \o "." \o path[2].name
      [] Len(path) = 3 -> path[1].name \o "." \o path[2].name \o "." \o path[3].name

\* C14: full_name() returns the entity's path followed by one leaf-object
\* segment holding the entity's name, and leaves the entity (its path
\* included) as it was, so two calls on the same entity return the same
\* path; a path renders as its segments' names joined with '.', the empty
\* path as the empty string.
C14_FullNameAppendsLeaf ==
    /\ \A a \in Answers :
          /\ a.fn \in {"full_name", "full_name.to_string"} =>
                a.path = Append(entities[a.e].path, SegObject(entities[a.e].name))
          /\ a.fn = "path.to_string" => a.path = entities[a.e].path
          /\ a.fn \in {"path.to_string", "full_name.to_string"} => a.text = Dotted(a.path)
          /\ (a.fn = "path.to_string" /\ a.path = Path_empty) => a.text = ""
    /\ \A a, b \in Answers :
          (a.fn = "full_name" /\ b.fn = "full_name" /\ a.e = b.e) => a.path = b.path
    /\ lastOp.op \in {"full_name", "full_name.to_string"} => Post = Pre

\* full_name() was called twice on an entity declared below m.n and
\* returned m.n.<name> both times.
C14_Witness ==
    /\ Len(asked) = 2
    /\ asked[1].fn = "full_name" /\ asked[2].fn = "full_name"
    /\ asked[1].e = asked[2].e
    /\ Len(entities[asked[1].e].path) = 2
    /\ Len(asked[2].path) = 3
    /\ asked[2].path[3] = SegObject(entities[asked[1].e].name)

Others(i) == \A j \in Existing \ {i} : entities'[j] = entities[j]

\* C18: resolve(ty, kind, path) sets ty, kind and path to its arguments and
\* nothing else; to_resolving() sets kind to Resolving and nothing else;
\* set_visibility sets visibility and nothing else; no operation changes the
\* id or the name of an entity, or any field of another entity.
C18_OperationsChangeOnlyTheirFields ==
    [][/\ \A i \in Existing, f \in InstallForms :
            Resolve(i, f) =>
                /\ entities'[i] =
                      [id |-> entities[i].id, visibility |-> entities[i].visibility,
                       name |-> entities[i].name,
                       ty |-> f.ty, kind |-> f.kind, path |-> f.path]
                /\ Others(i)
       /\ \A i \in Existing :
            ToResolving(i) =>
                /\ entities'[i] =
                      [id |-> entities[i].id, visibility |-> entities[i].visibility,
                       name |-> entities[i].name, ty |-> entities[i].ty,
                       kind |-> Resolving, path |-> entities[i].path]
                /\ Others(i)
       /\ \A i \in Existing, visibility \in Visibilities :
            SetVisibility(i, visibility) =>
                /\ entities'[i] =
                      [id |-> entities[i].id, visibility |-> visibility,
                       name |-> entities[i].name, ty |-> entities[i].ty,
                       kind |-> entities[i].kind, path |-> entities[i].path]
                /\ Others(i)
       /\ \A i \in Existing :
            /\ entities'[i].id = entities[i].id
            /\ entities'[i].name = entities[i].name]_vars

\* An entity declared Public was made Private, resolved, sent back to
\* Resolving, and resolved again with another type, kind and path.
C18_Witness ==
    /\ lastOp.op = "resolve"
    /\ Pre.kind.tag = "Resolving" /\ Pre.ty = "int" /\ Len(Pre.path) = 1
    /\ Post.name = "a" /\ Post.visibility = "Private"
    /\ Post.ty = "bool" /\ Post.kind.tag = "Variable" /\ Len(Post.path) = 2

====
